---- MODULE Spec2Model ----
(***************************************************************************)
(* A model of the RSS spider: the daily run (spider_yesterday_1012.py) and *)
(* the weekly aggregation (weekly_aggregate.py).                           *)
(*                                                                         *)
(* Text on which the code computes character by character (titles, alt    *)
(* texts, month names) is a sequence of one-character strings, so that     *)
(* len(), strip() and lower() are computed and not assumed.  Date strings  *)
(* handed to pandas are opaque literals with the result pandas gives.      *)
(* A python date is its proleptic Gregorian ordinal (date.toordinal());    *)
(* an aware UTC datetime is the tuple <<year, month, day, hour, min, sec>>.*)
(***************************************************************************)
EXTENDS Integers, Sequences, FiniteSets, TLC

VARIABLES
    prog,      \* which script this behaviour runs
    today,     \* datetime.now(timezone.utc).date(), as an ordinal
    \* get_entry_pub_date / get_entry_title applied to one entry
    entry, fpc, dateResult, titleResult,
    \* spider_yesterday_1012.py, main flow
    pc, feedsDone, entriesSeen, pub_date, records, dailyFile,
    \* weekly_aggregate.py, aggregate_last_week
    wpc, fsDays, fsRows, week, d, probed, files, fileIdx, dfs, skipped, weeklyFile

vars == <<prog, today, entry, fpc, dateResult, titleResult,
          pc, feedsDone, entriesSeen, pub_date, records, dailyFile,
          wpc, fsDays, fsRows, week, d, probed, files, fileIdx, dfs, skipped, weeklyFile>>

fnVars == <<entry, fpc, dateResult, titleResult>>
dailyVars == <<pc, feedsDone, entriesSeen, pub_date, records, dailyFile>>
weeklyVars == <<wpc, fsDays, fsRows, week, d, probed, files, fileIdx, dfs, skipped, weeklyFile>>

----------------------------------------------------------------------------
(* Characters and strings                                                  *)

UpperLetters == <<"A","B","C","D","E","F","G","H","I","J","K","L","M",
                  "N","O","P","Q","R","S","T","U","V","W","X","Y","Z">>
LowerLetters == <<"a","b","c","d","e","f","g","h","i","j","k","l","m",
                  "n","o","p","q","r","s","t","u","v","w","x","y","z">>

LowerChar(c) ==
    IF \E i \in 1..26 : UpperLetters[i] = c
    THEN LowerLetters[CHOOSE i \in 1..26 : UpperLetters[i] = c]
    ELSE c

\* str.lower()
Lower(s) == [i \in 1..Len(s) |-> LowerChar(s[i])]

RECURSIVE LStrip(_)
LStrip(s) == IF s # <<>> /\ Head(s) = " " THEN LStrip(Tail(s)) ELSE s

RECURSIVE RStrip(_)
RStrip(s) ==
    IF s # <<>> /\ s[Len(s)] = " " THEN RStrip(SubSeq(s, 1, Len(s) - 1)) ELSE s

\* str.strip()
Strip(s) == RStrip(LStrip(s))

----------------------------------------------------------------------------
(* datetime.date: ordinals, civil dates, ISO calendar (CPython's rules)    *)

IsLeap(y) == (y % 4 = 0) /\ ((y % 100 # 0) \/ (y % 400 = 0))

DaysInMonth(y, m) ==
    IF m = 2 THEN (IF IsLeap(y) THEN 29 ELSE 28)
    ELSE IF m \in {4, 6, 9, 11} THEN 30 ELSE 31

RECURSIVE DaysBeforeMonth(_, _)
DaysBeforeMonth(y, m) ==
    IF m = 1 THEN 0 ELSE DaysBeforeMonth(y, m - 1) + DaysInMonth(y, m - 1)

DaysBeforeYear(y) ==
    LET p == y - 1 IN p * 365 + (p \div 4) - (p \div 100) + (p \div 400)

\* date(y, m, d).toordinal()
Ymd2Ord(y, m, dd) == DaysBeforeYear(y) + DaysBeforeMonth(y, m) + dd

\* date.fromordinal(n) as <<year, month, day>>
Ord2Ymd(n) ==
    LET n0 == n - 1
        n400 == n0 \div 146097
        r400 == n0 % 146097
        n100 == r400 \div 36524
        r100 == r400 % 36524
        n4 == r100 \div 1461
        r4 == r100 % 1461
        n1 == r4 \div 365
        r1 == r4 % 365
        year == n400 * 400 + 1 + n100 * 100 + n4 * 4 + n1
    IN IF n1 = 4 \/ n100 = 4
       THEN <<year - 1, 12, 31>>
       ELSE LET m == CHOOSE k \in 1..12 :
                        /\ DaysBeforeMonth(year, k) <= r1
                        /\ r1 < DaysBeforeMonth(year, k) + DaysInMonth(year, k)
            IN <<year, m, r1 - DaysBeforeMonth(year, m) + 1>>

IsoWeek1Monday(y) ==
    LET firstday == Ymd2Ord(y, 1, 1)
        firstweekday == (firstday + 6) % 7
        week1monday == firstday - firstweekday
    IN IF firstweekday > 3 THEN week1monday + 7 ELSE week1monday

\* date.isocalendar() of the date with ordinal n
IsoCalendar(n) ==
    LET y == Ord2Ymd(n)[1]
        w == (n - IsoWeek1Monday(y)) \div 7
        dy == (n - IsoWeek1Monday(y)) % 7
    IN IF w < 0
       THEN [year |-> y - 1,
             week |-> ((n - IsoWeek1Monday(y - 1)) \div 7) + 1,
             weekday |-> ((n - IsoWeek1Monday(y - 1)) % 7) + 1]
       ELSE IF w >= 52 /\ n >= IsoWeek1Monday(y + 1)
       THEN [year |-> y + 1, week |-> 1, weekday |-> dy + 1]
       ELSE [year |-> y, week |-> w + 1, weekday |-> dy + 1]

----------------------------------------------------------------------------
(* Results of date resolution                                              *)

Instant(dt) == [kind |-> "instant", dt |-> dt]
Absent == [kind |-> "absent", dt |-> <<>>]
Raised == [kind |-> "raise", dt |-> <<>>]

\* datetime(y, m, d, h, mi, s, tzinfo=timezone.utc): ValueError on a field
\* out of range
DatetimeOk(t) ==
    /\ t[1] \in 1..9999
    /\ t[2] \in 1..12
    /\ t[3] >= 1 /\ t[3] <= DaysInMonth(t[1], t[2])
    /\ t[4] \in 0..23
    /\ t[5] \in 0..59
    /\ t[6] \in 0..59

datetime(t) == IF DatetimeOk(t) THEN Instant(t) ELSE Raised

\* pd.to_datetime(s, utc=True) on the date strings the model uses: the UTC
\* instant, or <<>> where pandas finds no date in the string
PdToDatetime(s) ==
    CASE s = "2025-10-10T08:00:00Z" -> <<2025, 10, 10, 8, 0, 0>>
      [] s = "Fri, 10 Oct 2025 09:00:00 GMT" -> <<2025, 10, 10, 9, 0, 0>>
      [] s = "2025-10-10T01:00:00+02:00" -> <<2025, 10, 9, 23, 0, 0>>
      [] s = "2025-10-10 08:00:00+00:00" -> <<2025, 10, 10, 8, 0, 0>>
      [] s = "2025-10-10 09:00:00+00:00" -> <<2025, 10, 10, 9, 0, 0>>
      [] s = "2025-10-11 07:00:00+00:00" -> <<2025, 10, 11, 7, 0, 0>>
      [] OTHER -> <<>>

parse_date_strict(s) ==
    IF s = "" THEN Absent
    ELSE IF PdToDatetime(s) # <<>> THEN Instant(PdToDatetime(s)) ELSE Absent

S_january == <<"j","a","n","u","a","r","y">>
S_february == <<"f","e","b","r","u","a","r","y">>
S_march == <<"m","a","r","c","h">>
S_april == <<"a","p","r","i","l">>
S_may == <<"m","a","y">>
S_june == <<"j","u","n","e">>
S_july == <<"j","u","l","y">>
S_august == <<"a","u","g","u","s","t">>
S_september == <<"s","e","p","t","e","m","b","e","r">>
S_october == <<"o","c","t","o","b","e","r">>
S_november == <<"n","o","v","e","m","b","e","r">>
S_december == <<"d","e","c","e","m","b","e","r">>

MONTHS == <<S_january, S_february, S_march, S_april, S_may, S_june, S_july,
            S_august, S_september, S_october, S_november, S_december>>

\* MONTHS.get(name): the month number, 0 for None
MonthsGet(name) ==
    IF \E i \in 1..12 : MONTHS[i] = name
    THEN CHOOSE i \in 1..12 : MONTHS[i] = name
    ELSE 0

\* pd.to_datetime("<day> <month> <year>", utc=True): pandas reads full and
\* three-letter English month names in any case and refuses a date that
\* does not exist
PdMonth(name) ==
    LET l == Lower(name)
    IN IF \E i \in 1..12 : MONTHS[i] = l \/ SubSeq(MONTHS[i], 1, 3) = l
       THEN CHOOSE i \in 1..12 : MONTHS[i] = l \/ SubSeq(MONTHS[i], 1, 3) = l
       ELSE 0

parse_date_strict_dmy(day, month, year) ==
    LET m == PdMonth(month)
        t == <<year, m, day, 0, 0, 0>>
    IN IF m # 0 /\ DatetimeOk(t) THEN Instant(t) ELSE Absent

\* summary.avail is the <<day, month name, year>> that AVAILABLE_ONLINE_RE
\* captures from the cleaned summary, <<>> when it does not match
parse_available_online_date(summary) ==
    IF summary.avail = <<>> THEN Absent
    ELSE LET day == summary.avail[1]
             month_s == summary.avail[2]
             year == summary.avail[3]
             month == MonthsGet(Lower(month_s))
             t == <<year, month, day, 0, 0, 0>>
         IN IF month = 0 THEN parse_date_strict_dmy(day, month_s, year)
            ELSE IF DatetimeOk(t) THEN Instant(t)
            ELSE parse_date_strict_dmy(day, month_s, year)

get_entry_pub_date(e) ==
    LET t == IF e.published_parsed # <<>> THEN e.published_parsed
             ELSE e.updated_parsed
    IN IF t # <<>> THEN datetime(SubSeq(t, 1, 6))
       ELSE LET p == parse_date_strict(e.published)
                dt == IF p.kind = "instant" THEN p
                      ELSE parse_date_strict(e.updated)
            IN IF dt.kind = "instant" THEN dt
               ELSE parse_available_online_date(e.summary)

----------------------------------------------------------------------------
(* Text sanitising and the title resolver                                  *)

\* Whether key occurs in s at position i
OccursAt(s, key, i) ==
    /\ i + Len(key) - 1 <= Len(s)
    /\ SubSeq(s, i, i + Len(key) - 1) = key

\* str.replace(key, val): every occurrence, left to right, not overlapping
RECURSIVE Replace(_, _, _)
Replace(s, key, val) ==
    IF s = <<>> THEN <<>>
    ELSE IF OccursAt(s, key, 1)
    THEN val \o Replace(SubSeq(s, Len(key) + 1, Len(s)), key, val)
    ELSE <<Head(s)>> \o Replace(Tail(s), key, val)

\* html.unescape, for the entities the model's strings use
Entities == << <<(<<"&","a","m","p",";">>), (<<"&">>)>>,
               <<(<<"&","l","t",";">>), (<<"<">>)>>,
               <<(<<"&","g","t",";">>), (<<">">>)>> >>

RECURSIVE ReplaceTable(_, _, _)
ReplaceTable(s, table, i) ==
    IF i > Len(table) THEN s
    ELSE ReplaceTable(Replace(s, table[i][1], table[i][2]), table, i + 1)

unescape(s) == ReplaceTable(s, Entities, 1)

\* TAG_RE.sub("", s) with TAG_RE = <[^>]+> : a "<", one or more characters
\* other than ">", then ">"
RECURSIVE StripTags(_)
StripTags(s) ==
    IF s = <<>> THEN <<>>
    ELSE IF /\ Head(s) = "<"
            /\ \E j \in 3..Len(s) : s[j] = ">" /\ \A k \in 2..(j - 1) : s[k] # ">"
    THEN LET j == CHOOSE j \in 3..Len(s) :
                      s[j] = ">" /\ \A k \in 2..(j - 1) : s[k] # ">"
         IN StripTags(SubSeq(s, j + 1, Len(s)))
    ELSE <<Head(s)>> \o StripTags(Tail(s))

\* re.sub(r"\s+", " ", s)
RECURSIVE CollapseSpaces(_)
CollapseSpaces(s) ==
    IF Len(s) < 2 THEN s
    ELSE IF s[1] = " " /\ s[2] = " " THEN CollapseSpaces(Tail(s))
    ELSE <<Head(s)>> \o CollapseSpaces(Tail(s))

clean_html_text(s) ==
    IF s = <<>> THEN <<>>
    ELSE Strip(CollapseSpaces(StripTags(unescape(s))))

\* The table of fix_mojibake, in its order.  A character outside ASCII is
\* written as the one-character token of its code point.
MojibakeTable ==
    << <<(<<"u9225","uFFFD">>), (<<"'">>)>>,
       <<(<<"u9225">>), (<<"'">>)>>,
       <<(<<"u00E2","u0080","u0099">>), (<<"'">>)>>,
       <<(<<"u00E2","u0080","u0093">>), (<<"-">>)>>,
       <<(<<"u00E2","u0080","u0094">>), (<<"-">>)>>,
       <<(<<"u00E2","u0080","u009C">>), (<<"\"">>)>>,
       <<(<<"u00E2","u0080","u009D">>), (<<"\"">>)>> >>

fix_mojibake(s) == IF s = <<>> THEN s ELSE ReplaceTable(s, MojibakeTable, 1)

GENERIC_TITLES ==
    { <<"g","r","a","p","h","i","c","a","l"," ","a","b","s","t","r","a","c","t">>,
      <<"t","a","b","l","e"," ","o","f"," ","c","o","n","t","e","n","t","s">>,
      <<"t","o","c">>,
      <<"c","o","v","e","r"," ","i","m","a","g","e">>,
      <<"n","o"," ","t","i","t","l","e">> }

\* looks_generic without lower()
looks_generic_cased(title) ==
    LET t == Strip(title)
    IN IF t = <<>> THEN TRUE
       ELSE t \in GENERIC_TITLES \/ Len(t) < 5

looks_generic(title) ==
    LET t == Lower(Strip(title))
    IN IF t = <<>> THEN TRUE
       ELSE t \in GENERIC_TITLES \/ Len(t) < 5

\* An HTML blob is modelled by what ALT_IMG_RE captures from it: the alt
\* attribute of its first img tag, <<>> when there is none.
extract_alt_from_html(html) ==
    IF html = <<>> THEN <<>>
    ELSE fix_mojibake(clean_html_text(html))

\* max(xs, key=len): the first element of greatest length
MaxByLen(xs) ==
    xs[CHOOSE i \in 1..Len(xs) :
          /\ \A j \in 1..Len(xs) : Len(xs[j]) <= Len(xs[i])
          /\ \A j \in 1..(i - 1) : Len(xs[j]) < Len(xs[i])]

\* The HTML sources of an entry: content[i]["value"], then summary
html_blobs(e) ==
    SelectSeq(e.content, LAMBDA v : v # <<>>)
        \o (IF e.summary.alt # <<>> THEN <<e.summary.alt>> ELSE <<>>)

RECURSIVE AltsOf(_)
AltsOf(blobs) ==
    IF blobs = <<>> THEN <<>>
    ELSE LET alt_txt == extract_alt_from_html(Head(blobs))
         IN (IF alt_txt # <<>> THEN <<alt_txt>> ELSE <<>>) \o AltsOf(Tail(blobs))

alt_candidates(e) == AltsOf(html_blobs(e))

get_entry_title(e) ==
    LET title_from_feed == fix_mojibake(clean_html_text(e.title))
        alts == alt_candidates(e)
    IN IF looks_generic(title_from_feed) /\ alts # <<>>
       THEN MaxByLen(alts)
       ELSE IF /\ title_from_feed # <<>>
               /\ alts # <<>>
               /\ Len(MaxByLen(alts)) >= Len(title_from_feed) + 10
               /\ ~looks_generic(MaxByLen(alts))
       THEN MaxByLen(alts)
       ELSE IF title_from_feed # <<>> THEN title_from_feed
       ELSE IF alts # <<>> THEN alts[1] ELSE <<>>

----------------------------------------------------------------------------
(* Feed entries                                                            *)

S_Empty == <<>>
S_Short == <<"S","h","o","r","t">>
S_ShortMarkup == <<"<","b",">","S","h","o","r","t","<","/","b",">"," ">>
S_TOC == <<"T","O","C">>
S_GraphicalAbstract ==
    <<"G","r","a","p","h","i","c","a","l"," ","A","b","s","t","r","a","c","t">>
S_TableOfContents ==
    <<"T","a","b","l","e"," ","o","f"," ","C","o","n","t","e","n","t","s">>
S_ItsOk == <<"I","t","u00E2","u0080","u0099","s"," ","o","k">>
S_Shorter == <<"S","h","o","r","t","e","r","!">>
S_NovelCatalystX ==
    <<"N","o","v","e","l"," ","c","a","t","a","l","y","s","t"," ","X">>
S_LowTemperature ==
    <<"L","o","w","-","t","e","m","p","e","r","a","t","u","r","e"," ",
      "C","O","2"," ","r","e","d","u","c","t","i","o","n">>
S_October == <<"O","c","t","o","b","e","r">>
S_OCTOBER == <<"O","C","T","O","B","E","R">>
S_Oct == <<"O","c","t">>
S_Foo == <<"F","o","o">>
S_February == <<"F","e","b","r","u","a","r","y">>

\* entry.title values
Titles == {S_Empty, S_Short, S_ShortMarkup, S_TOC, S_GraphicalAbstract, S_ItsOk}

\* alt attributes of the first img of a blob (<<>>: the blob has none)
Alts == {S_Empty, S_TOC, S_Shorter, S_NovelCatalystX, S_TableOfContents,
         S_GraphicalAbstract, S_LowTemperature}

\* Blobs per entry.content in the title resolver's entries
MaxBlobs == 2

SeqsUpTo(S, n) == UNION {[1..k -> S] : k \in 0..n}

\* time.struct_time values of published_parsed / updated_parsed
T_Pub == <<2025, 10, 10, 8, 0, 0, 4, 283, 0>>
T_Upd == <<2025, 10, 11, 7, 30, 0, 5, 284, 0>>
T_BadMonth == <<2025, 13, 1, 0, 0, 0, 0, 1, 0>>
T_BadDay == <<2025, 2, 30, 0, 0, 0, 0, 1, 0>>

NoSummary == [avail |-> <<>>, alt |-> <<>>]

Avails == { <<>>, <<10, S_October, 2025>>, <<10, S_OCTOBER, 2025>>,
            <<10, S_Oct, 2025>>, <<10, S_Foo, 2025>>, <<31, S_February, 2025>>,
            <<0, S_October, 2025>> }

MkEntry(title, content, summary, pp, up, ps, us) ==
    [title |-> title, content |-> content, summary |-> summary,
     published_parsed |-> pp, updated_parsed |-> up,
     published |-> ps, updated |-> us, link |-> ""]

\* Entries that vary in the fields the date resolver reads
DateEntries ==
    { MkEntry(S_Short, <<>>, [avail |-> a, alt |-> <<>>], pp, up, ps, us) :
        a \in Avails,
        pp \in {<<>>, T_Pub, T_BadMonth},
        up \in {<<>>, T_Upd, T_BadDay},
        ps \in {"", "2025-10-10T08:00:00Z", "not a date"},
        us \in {"", "Fri, 10 Oct 2025 09:00:00 GMT", "2025-10-10T01:00:00+02:00"} }

\* Entries that vary in the fields the title resolver reads
TitleEntries ==
    { MkEntry(t, c, [avail |-> <<>>, alt |-> a], <<>>, <<>>, "", "") :
        t \in Titles, c \in SeqsUpTo(Alts, MaxBlobs), a \in Alts }

NoEntry == MkEntry(<<>>, <<>>, NoSummary, <<>>, <<>>, "", "")

----------------------------------------------------------------------------
(* The resolvers applied to one entry                                      *)

FnIdle ==
    /\ entry = NoEntry
    /\ fpc = [date |-> TRUE, title |-> TRUE]
    /\ dateResult = Absent
    /\ titleResult = <<>>

ResolveDate ==
    /\ prog = "resolve"
    /\ ~fpc.date
    /\ dateResult' = get_entry_pub_date(entry)
    /\ fpc' = [fpc EXCEPT !.date = TRUE]
    /\ UNCHANGED <<prog, today, entry, titleResult, dailyVars, weeklyVars>>

ResolveTitle ==
    /\ prog = "resolve"
    /\ ~fpc.title
    /\ titleResult' = get_entry_title(entry)
    /\ fpc' = [fpc EXCEPT !.title = TRUE]
    /\ UNCHANGED <<prog, today, entry, dateResult, dailyVars, weeklyVars>>

----------------------------------------------------------------------------
(* Sorting and deduplication (pandas)                                      *)

\* A pub_date cell is an instant <<y, m, d, h, mi, s>> or <<>> for NaT.
\* The order of instants on the UTC time line is the order of their fields,
\* the year first.
RECURSIVE NotAfter(_, _)
NotAfter(a, b) ==
    IF a = <<>> THEN TRUE
    ELSE IF Head(a) # Head(b) THEN Head(a) < Head(b)
    ELSE NotAfter(Tail(a), Tail(b))

\* The orders in which a sort by pub_date may give the rows labelled S:
\* ascending, rows of equal pub_date in any order
RECURSIVE Ascending(_, _)
Ascending(rows, S) ==
    IF S = {} THEN {<<>>}
    ELSE UNION {{<<i>> \o p : p \in Ascending(rows, S \ {i})} :
                  i \in {x \in S : \A y \in S :
                            NotAfter(rows[x].pub_date, rows[y].pub_date)}}

\* The set S of naturals as an increasing sequence
RECURSIVE Increasing(_)
Increasing(S) ==
    IF S = {} THEN <<>>
    ELSE LET m == CHOOSE x \in S : \A y \in S : x <= y
         IN <<m>> \o Increasing(S \ {m})

\* sort_values with na_position="first"
sort_values_nat_first(rows) ==
    LET valid == {i \in 1..Len(rows) : rows[i].pub_date # <<>>}
        nat == {i \in 1..Len(rows) : rows[i].pub_date = <<>>}
    IN {Increasing(nat) \o p : p \in Ascending(rows, valid)}

\* df.sort_values(by="pub_date", ascending=True): the orders of the row
\* labels it may return.  The default kind is quicksort, which is not
\* stable: rows with equal pub_date come out in any order.  Rows with NaT
\* are put last (na_position="last"), in their input order.
sort_values(rows) ==
    LET valid == {i \in 1..Len(rows) : rows[i].pub_date # <<>>}
        nat == {i \in 1..Len(rows) : rows[i].pub_date = <<>>}
    IN {p \o Increasing(nat) : p \in Ascending(rows, valid)}

\* df["title"].fillna("").str.strip()
title_norm(row) == Strip(row.title)

\* drop_duplicates with keep="last"
drop_duplicates_keep_last(rows, order) ==
    SelectSeq(order, LAMBDA i :
        \A k \in 1..Len(order) :
            (order[k] = i) =>
                \A j \in (k + 1)..Len(order) :
                    Strip(rows[order[j]].title) # Strip(rows[i].title))

\* df.drop_duplicates(subset="title_norm", keep="first") on the rows taken
\* in the given order of labels: the labels kept, in that order
drop_duplicates(rows, order) ==
    SelectSeq(order, LAMBDA i :
        \A k \in 1..Len(order) :
            (order[k] = i) =>
                \A j \in 1..(k - 1) :
                    title_norm(rows[order[j]]) # title_norm(rows[i]))

\* The rows with the labels of index, in that order
Take(rows, index) == [k \in 1..Len(index) |-> rows[index[k]]]

Columns == <<"title", "link", "published", "source", "pub_date">>

NoFile ==
    [written |-> FALSE, name |-> <<>>, header |-> <<>>, rows |-> <<>>,
     index |-> <<>>]

----------------------------------------------------------------------------
(* spider_yesterday_1012.py: the main flow                                 *)

\* Feeds in feeds1011.txt, and entries fetched over the whole run
MaxFeeds == 2
MaxEntries == 3

DailyToday == {Ymd2Ord(2025, 10, 11), Ymd2Ord(2025, 10, 12)}

MkDated(title, link, pp, up, ps, us, avail) ==
    [MkEntry(title, <<>>, [avail |-> avail, alt |-> <<>>], pp, up, ps, us)
        EXCEPT !.link = link]

\* The entries the feeds may hold
DailyEntries ==
    { MkDated(S_Short, "a", <<2025, 10, 10, 0, 0, 0, 4, 283, 0>>, <<>>, "", "", <<>>),
      MkDated(S_Short, "c", <<2025, 10, 9, 23, 59, 59, 3, 282, 0>>, <<>>, "", "", <<>>),
      MkDated(S_Short, "d", <<>>, <<>>, "", "not a date", <<>>),
      MkDated(S_ShortMarkup, "e", <<>>, <<>>, "2025-10-10T08:00:00Z", "", <<>>),
      MkDated(S_Short, "f", <<>>, <<>>, "", "Fri, 10 Oct 2025 09:00:00 GMT", <<>>),
      MkDated(S_ItsOk, "g", <<>>, <<>>, "", "", <<10, S_October, 2025>>),
      MkDated(S_Short, "h", <<>>, <<>>, "2025-10-10T01:00:00+02:00", "", <<>>),
      MkDated(S_ItsOk, "", <<>>, T_Upd, "", "", <<>>),
      MkDated(S_Short, "j", T_BadMonth, <<>>, "", "", <<>>) }

\* pub_date.strftime("%Y-%m-%d %H:%M:%S %Z")
strftime(dt) == dt \o <<"UTC">>

\* in_window with ">=" for "==": the target day and every later one
in_window_from(pd, yesterday) ==
    /\ pd.kind = "instant"
    /\ NotAfter(Ord2Ymd(yesterday), SubSeq(pd.dt, 1, 3))

\* if pub_date and pub_date.date() == yesterday
in_window(pd, yesterday) ==
    /\ pd.kind = "instant"
    /\ SubSeq(pd.dt, 1, 3) = Ord2Ymd(yesterday)

DailyIdle ==
    /\ pc = "idle"
    /\ feedsDone = 0
    /\ entriesSeen = 0
    /\ pub_date = Absent
    /\ records = <<>>
    /\ dailyFile = NoFile

DailyInit ==
    /\ prog = "daily"
    /\ today \in DailyToday
    /\ pc = "feeds"
    /\ feedsDone = 0
    /\ entriesSeen = 0
    /\ pub_date = Absent
    /\ records = <<>>
    /\ dailyFile = NoFile

\* for url in urls: feed = feedparser.parse(url)
StartFeed ==
    /\ pc = "feeds"
    /\ feedsDone < MaxFeeds
    /\ pc' = "entries"
    /\ UNCHANGED <<prog, today, fnVars, feedsDone, entriesSeen, pub_date,
                   records, dailyFile, weeklyVars>>

\* One turn of "for entry in feed.entries".  An exception raised by
\* get_entry_pub_date is caught nowhere and ends the run.
ProcessEntry ==
    /\ pc = "entries"
    /\ entriesSeen < MaxEntries
    /\ \E e \in DailyEntries :
         /\ pub_date' = get_entry_pub_date(e)
         /\ IF pub_date'.kind = "raise"
            THEN /\ pc' = "crashed"
                 /\ UNCHANGED records
            ELSE /\ pc' = pc
                 /\ records' =
                       IF in_window(pub_date', today - 1)
                       THEN Append(records,
                                [title |-> get_entry_title(e),
                                 link |-> e.link,
                                 published |-> strftime(pub_date'.dt),
                                 source |-> feedsDone + 1,
                                 pub_date |-> pub_date'.dt])
                       ELSE records
    /\ entriesSeen' = entriesSeen + 1
    /\ UNCHANGED <<prog, today, fnVars, feedsDone, dailyFile, weeklyVars>>

\* feed.entries is exhausted
EndFeed ==
    /\ pc = "entries"
    /\ pc' = "feeds"
    /\ feedsDone' = feedsDone + 1
    /\ UNCHANGED <<prog, today, fnVars, entriesSeen, pub_date, records,
                   dailyFile, weeklyVars>>

\* After the loop: pd.DataFrame(records), sort, drop duplicates, to_csv
WriteDaily ==
    /\ pc = "feeds"
    /\ pc' = "done"
    /\ IF records = <<>>
       THEN dailyFile' = [written |-> TRUE, name |-> Ord2Ymd(today - 1),
                          header |-> <<>>, rows |-> <<>>, index |-> <<>>]
       ELSE \E order \in sort_values(records) :
              LET index == drop_duplicates(records, order)
              IN dailyFile' = [written |-> TRUE, name |-> Ord2Ymd(today - 1),
                               header |-> Columns,
                               rows |-> Take(records, index), index |-> index]
    /\ UNCHANGED <<prog, today, fnVars, feedsDone, entriesSeen, pub_date,
                   records, weeklyVars>>

DailyNext == StartFeed \/ ProcessEntry \/ EndFeed \/ WriteDaily

----------------------------------------------------------------------------
(* weekly_aggregate.py: aggregate_last_week                                *)

\* Daily files around a run date, and rows read over the whole run
MaxFiles == 1
MaxRows == 3

S_A == <<"a">>
S_PadA == <<" ","a"," ">>
S_B == <<"b">>

\* Rows of the daily files: title, link and the stored pub_date text
RowPool ==
    { [title |-> S_A, link |-> "1", pub_date |-> "2025-10-10 08:00:00+00:00"],
      [title |-> S_PadA, link |-> "2", pub_date |-> "2025-10-10 08:00:00+00:00"],
      [title |-> S_A, link |-> "3", pub_date |-> "2025-10-10 09:00:00+00:00"],
      [title |-> S_B, link |-> "4", pub_date |-> "2025-10-10 09:00:00+00:00"],
      [title |-> S_A, link |-> "5", pub_date |-> "not a timestamp"] }

\* What pd.read_csv may return for a daily file: a frame with the pub_date
\* column, or one without it
Frames ==
    {[hasPub |-> TRUE, rows |-> r] : r \in SeqsUpTo(RowPool, MaxRows)}
        \cup {[hasPub |-> FALSE,
               rows |-> <<[title |-> S_B, link |-> "6", pub_date |-> ""]>>]}

FewFrames ==
    {[hasPub |-> TRUE,
      rows |-> <<[title |-> S_A, link |-> "1",
                  pub_date |-> "2025-10-10 08:00:00+00:00"]>>]}

\* The frames read_csv may return, by the name of the pool
FramesOf(pool) ==
    IF pool = "all" THEN Frames ELSE IF pool = "few" THEN FewFrames ELSE {}

\* this_monday with "iso.weekday" for "iso.weekday - 1"
this_monday_off_by_one(t) == t - IsoCalendar(t).weekday

\* The locals this_monday, last_monday, last_sunday of a run on date t
this_monday(t) == t - (IsoCalendar(t).weekday - 1)
last_monday(t) == this_monday(t) - 7
last_sunday(t) == last_monday(t) + 6

\* OUTPUT_DIR / f"news_{d.strftime('%Y-%m-%d')}.csv", by the date it names
daily_file_for(day) == Ord2Ymd(day)

\* pd.to_datetime(df["pub_date"], utc=True, errors="coerce") when the frame
\* has the column: a text pandas cannot read becomes NaT
normalize_pub_date(df) ==
    IF df.hasPub
    THEN [df EXCEPT !.rows =
            [k \in 1..Len(df.rows) |->
                [df.rows[k] EXCEPT !.pub_date = PdToDatetime(df.rows[k].pub_date)]]]
    ELSE df

\* pd.concat(dfs, ignore_index=True): a frame without the column gives NaT
RECURSIVE concat(_)
concat(frames) ==
    IF frames = <<>> THEN <<>>
    ELSE LET f == Head(frames)
         IN (IF f.hasPub THEN f.rows
             ELSE [k \in 1..Len(f.rows) |-> [f.rows[k] EXCEPT !.pub_date = <<>>]])
            \o concat(Tail(frames))

\* news_week_{iso.year}-W{iso.week:02d}.csv for the week ending on sunday
weekly_name(sunday) == <<IsoCalendar(sunday).year, IsoCalendar(sunday).week>>

RECURSIVE RowsRead(_)
RowsRead(frames) ==
    IF frames = <<>> THEN 0 ELSE Len(Head(frames).rows) + RowsRead(Tail(frames))

WeeklyIdle ==
    /\ wpc = "idle"
    /\ fsDays = {}
    /\ fsRows = "none"
    /\ week = [monday |-> 0, sunday |-> 0]
    /\ d = 0
    /\ probed = {}
    /\ files = <<>>
    /\ fileIdx = 1
    /\ dfs = <<>>
    /\ skipped = {}
    /\ weeklyFile = NoFile

\* fsDays: the dates whose daily file exists; fsRows: the pool of frames
\* read_csv may return for such a file
WeeklyStart(days, frames) ==
    /\ prog = "weekly"
    /\ today \in days
    /\ wpc = "collect"
    /\ fsRows = frames
    /\ week = [monday |-> last_monday(today), sunday |-> last_sunday(today)]
    /\ d = week.monday
    /\ probed = {}
    /\ files = <<>>
    /\ fileIdx = 1
    /\ dfs = <<>>
    /\ skipped = {}
    /\ weeklyFile = NoFile

\* One turn of "while d <= last_sunday": if f.exists(): files.append(f)
Probe ==
    /\ wpc = "collect"
    /\ d <= week.sunday
    /\ files' = IF daily_file_for(d) \in fsDays
                THEN Append(files, daily_file_for(d)) ELSE files
    /\ probed' = probed \cup {daily_file_for(d)}
    /\ d' = d + 1
    /\ UNCHANGED <<prog, today, fnVars, dailyVars, wpc, fsDays, fsRows, week,
                   fileIdx, dfs, skipped, weeklyFile>>

\* if not files: write the empty table and return
NoFiles ==
    /\ wpc = "collect"
    /\ d > week.sunday
    /\ files = <<>>
    /\ weeklyFile' = [written |-> TRUE, name |-> weekly_name(week.sunday),
                      header |-> Columns, rows |-> <<>>, index |-> <<>>]
    /\ wpc' = "done"
    /\ UNCHANGED <<prog, today, fnVars, dailyVars, fsDays, fsRows, week, d, probed, files,
                   fileIdx, dfs, skipped>>

StartRead ==
    /\ wpc = "collect"
    /\ d > week.sunday
    /\ files # <<>>
    /\ wpc' = "read"
    /\ UNCHANGED <<prog, today, fnVars, dailyVars, fsDays, fsRows, week, d, probed, files,
                   fileIdx, dfs, skipped, weeklyFile>>

\* One turn of "for f in files": read_csv and normalize_pub_date succeed
ReadFile ==
    /\ wpc = "read"
    /\ fileIdx <= Len(files)
    /\ \E df \in FramesOf(fsRows) :
         /\ RowsRead(dfs) + Len(df.rows) <= MaxRows
         /\ dfs' = Append(dfs, normalize_pub_date(df))
    /\ fileIdx' = fileIdx + 1
    /\ UNCHANGED <<prog, today, fnVars, dailyVars, wpc, fsDays, fsRows, week, d, probed,
                   files, skipped, weeklyFile>>

\* One turn of "for f in files": read_csv raises, the file is skipped
SkipFile ==
    /\ wpc = "read"
    /\ fileIdx <= Len(files)
    /\ skipped' = skipped \cup {files[fileIdx]}
    /\ fileIdx' = fileIdx + 1
    /\ UNCHANGED <<prog, today, fnVars, dailyVars, wpc, fsDays, fsRows, week, d, probed,
                   files, dfs, weeklyFile>>

\* if not dfs: write the empty table and return
NoFrames ==
    /\ wpc = "read"
    /\ fileIdx > Len(files)
    /\ dfs = <<>>
    /\ weeklyFile' = [written |-> TRUE, name |-> weekly_name(week.sunday),
                      header |-> Columns, rows |-> <<>>, index |-> <<>>]
    /\ wpc' = "done"
    /\ UNCHANGED <<prog, today, fnVars, dailyVars, fsDays, fsRows, week, d, probed, files,
                   fileIdx, dfs, skipped>>

\* concat, sort_values when the column is there, drop_duplicates, to_csv
Aggregate ==
    /\ wpc = "read"
    /\ fileIdx > Len(files)
    /\ dfs # <<>>
    /\ LET all_df == concat(dfs)
           orders == IF \E k \in 1..Len(dfs) : dfs[k].hasPub
                     THEN sort_values(all_df)
                     ELSE {[k \in 1..Len(all_df) |-> k]}
       IN \E order \in orders :
            LET index == drop_duplicates(all_df, order)
            IN weeklyFile' = [written |-> TRUE, name |-> weekly_name(week.sunday),
                              header |-> IF \E k \in 1..Len(dfs) : dfs[k].hasPub
                                         THEN Columns
                                         ELSE SubSeq(Columns, 1, 4),
                              rows |-> Take(all_df, index),
                              index |-> index]
    /\ wpc' = "done"
    /\ UNCHANGED <<prog, today, fnVars, dailyVars, fsDays, fsRows, week, d, probed, files,
                   fileIdx, dfs, skipped>>

WeeklyNext == Probe \/ NoFiles \/ StartRead \/ ReadFile \/ SkipFile
                \/ NoFrames \/ Aggregate

----------------------------------------------------------------------------
(* Specifications                                                          *)

\* Run dates of the weekly aggregation, from each anchor on
MaxRunDays == 13

WeekAnchors == {Ymd2Ord(2025, 10, 6), Ymd2Ord(2020, 12, 28)}

WeekToday == {a + k : a \in WeekAnchors, k \in 0..MaxRunDays}

\* The dates around a run date, last week's among them
Around(t) == {daily_file_for(t - k) : k \in 0..14}

\* The two scripts, each run on its own
Init ==
    \/ DailyInit /\ WeeklyIdle /\ FnIdle
    \/ /\ WeeklyStart({Ymd2Ord(2025, 10, 13)}, "all")
       /\ fsDays \in { {}, {<<2025, 10, 7>>},
                       {<<2025, 10, 6>>, <<2025, 10, 12>>},
                       {<<2025, 10, 5>>, <<2025, 10, 9>>, <<2025, 10, 13>>} }
       /\ DailyIdle
       /\ FnIdle

Next == DailyNext \/ WeeklyNext

Spec == Init /\ [][Next]_vars

\* The weekly aggregation on every run date of a range, with every set of
\* at most MaxFiles daily files around it, and with all of them
InitWeek ==
    /\ WeeklyStart(WeekToday, "few")
    /\ \/ fsDays \in {S \in SUBSET Around(today) : Cardinality(S) <= MaxFiles}
       \/ fsDays = Around(today)
    /\ DailyIdle
    /\ FnIdle

SpecWeek == InitWeek /\ [][WeeklyNext]_vars

\* The two resolvers on every entry of a pool
InitResolve ==
    /\ prog = "resolve"
    /\ today = 0
    /\ entry \in DateEntries \cup TitleEntries
    /\ fpc = [date |-> FALSE, title |-> FALSE]
    /\ dateResult = Absent
    /\ titleResult = <<>>
    /\ DailyIdle
    /\ WeeklyIdle

NextResolve == ResolveDate \/ ResolveTitle

SpecResolve == InitResolve /\ [][NextResolve]_vars

----------------------------------------------------------------------------
(* Properties                                                              *)

\* date.isoweekday(), from the ordinal alone
IsoWeekday(n) == IF n % 7 = 0 THEN 7 ELSE n % 7

\* Whether a resolved date is an instant of the UTC day with ordinal day
OnDay(p, day) ==
    /\ p.kind = "instant"
    /\ Ymd2Ord(p.dt[1], p.dt[2], p.dt[3]) = day

\* The order of pub_date cells with NaT after every instant
NotAfterNaT(a, b) == b = <<>> \/ (a # <<>> /\ NotAfter(a, b))

\* C1: in the daily run every record appended has a pub_date on the target
\* day (the run date minus one day), and an entry is admitted exactly when
\* its resolved date is present and falls on that UTC day: not when no date
\* was resolved, not at 23:59:59 of the day before, and at 00:00:00 of the
\* target day it is.
C1_Step ==
    /\ \A i \in 1..Len(records') :
          OnDay(Instant(records'[i].pub_date), today' - 1)
    /\ (prog = "daily" /\ entriesSeen' = entriesSeen + 1 /\ pc' # "crashed") =>
          /\ OnDay(pub_date', today - 1) =>
                /\ Len(records') = Len(records) + 1
                /\ SubSeq(records', 1, Len(records)) = records
                /\ records'[Len(records')].pub_date = pub_date'.dt
          /\ ~OnDay(pub_date', today - 1) => records' = records
          /\ pub_date'.kind = "absent" => records' = records
          /\ pub_date'.dt = Ord2Ymd(today - 2) \o <<23, 59, 59>> => records' = records
          /\ pub_date'.dt = Ord2Ymd(today - 1) \o <<0, 0, 0>> =>
                Len(records') = Len(records) + 1

C1_WindowFilter == [][C1_Step]_vars

\* Two entries were processed: the one resolved to 00:00:00 of the target
\* day was admitted, the one resolved to 23:59:59 of the day before was not.
C1_Witness ==
    /\ prog = "daily"
    /\ today = Ymd2Ord(2025, 10, 11)
    /\ entriesSeen = 2
    /\ Len(records) = 1
    /\ records[1].pub_date = <<2025, 10, 10, 0, 0, 0>>
    /\ pub_date = Instant(<<2025, 10, 9, 23, 59, 59>>)

\* The rows the sort-then-dedup pass of the running script takes
InputRows == IF prog = "daily" THEN records ELSE concat(dfs)

OutputFile == IF prog = "daily" THEN dailyFile ELSE weeklyFile

\* C2: the rows written by the sort-then-dedup pass (daily and weekly) are
\* in ascending pub_date order (a missing pub_date last), no two of them
\* share a trimmed title, every trimmed title of the input is kept with a
\* row of least pub_date among the input rows of that title, and every
\* output row is an input row.
C2_SortDedup ==
    (prog \in {"daily", "weekly"} /\ OutputFile.written) =>
        LET out == OutputFile.rows
            inp == InputRows
        IN /\ \A k \in 1..(Len(out) - 1) :
                 NotAfterNaT(out[k].pub_date, out[k + 1].pub_date)
           /\ \A k, l \in 1..Len(out) :
                 k # l => Strip(out[k].title) # Strip(out[l].title)
           /\ \A i \in 1..Len(inp) : \E k \in 1..Len(out) :
                 /\ Strip(out[k].title) = Strip(inp[i].title)
                 /\ \A j \in 1..Len(inp) :
                       Strip(inp[j].title) = Strip(inp[i].title) =>
                           NotAfterNaT(out[k].pub_date, inp[j].pub_date)
           /\ \A k \in 1..Len(out) : \E i \in 1..Len(inp) : out[k] = inp[i]

\* The weekly union held a row at 09:00, a row of the same trimmed title at
\* 08:00 and a row of another title at 09:00; the 08:00 row and the other
\* title's row were written, in ascending order.
C2_Witness ==
    /\ prog = "weekly"
    /\ weeklyFile.written
    /\ Len(concat(dfs)) = 3
    /\ concat(dfs)[1].title = S_B
    /\ concat(dfs)[2].title = S_A
    /\ concat(dfs)[2].pub_date = <<2025, 10, 10, 9, 0, 0>>
    /\ concat(dfs)[3].title = S_PadA
    /\ concat(dfs)[3].pub_date = <<2025, 10, 10, 8, 0, 0>>
    /\ Len(weeklyFile.rows) = 2
    /\ weeklyFile.rows[1] = concat(dfs)[3]
    /\ weeklyFile.rows[2] = concat(dfs)[1]

\* The sources of a publication date in the order of priority, each an
\* instant or absent
DateSources(e) ==
    << IF e.published_parsed # <<>> /\ DatetimeOk(e.published_parsed)
       THEN Instant(SubSeq(e.published_parsed, 1, 6)) ELSE Absent,
       IF e.updated_parsed # <<>> /\ DatetimeOk(e.updated_parsed)
       THEN Instant(SubSeq(e.updated_parsed, 1, 6)) ELSE Absent,
       parse_date_strict(e.published),
       parse_date_strict(e.updated),
       parse_available_online_date(e.summary) >>

FirstSuccess(srcs) ==
    IF \E i \in 1..Len(srcs) : srcs[i].kind = "instant"
    THEN srcs[CHOOSE i \in 1..Len(srcs) :
                /\ srcs[i].kind = "instant"
                /\ \A j \in 1..(i - 1) : srcs[j].kind # "instant"]
    ELSE Absent

\* C3: get_entry_pub_date returns the result of the first of the five
\* sources that succeeds, in the fixed order, and absent only when all five
\* fail.
C3_FirstSourceWins ==
    (prog = "resolve" /\ fpc.date) => dateResult = FirstSuccess(DateSources(entry))

\* What remains of C3 on the entries whose time tuples, where present, hold
\* fields in range
FirstSourceWinsInRange ==
    (/\ prog = "resolve"
     /\ fpc.date
     /\ entry.published_parsed # <<>> => DatetimeOk(entry.published_parsed)
     /\ (entry.published_parsed = <<>> /\ entry.updated_parsed # <<>>)
            => DatetimeOk(entry.updated_parsed))
        => dateResult = FirstSuccess(DateSources(entry))

\* C4: date resolution never raises: get_entry_pub_date returns an instant
\* or absent for every entry, also for one whose time tuple holds fields out
\* of range, and the daily run goes on to the remaining entries and feeds.
C4_NeverRaises ==
    /\ (prog = "resolve" /\ fpc.date) => dateResult.kind \in {"instant", "absent"}
    /\ prog = "daily" => pc # "crashed"

\* The cleaned feed title of an entry
FeedTitle(e) == fix_mojibake(clean_html_text(e.title))

\* Generic: empty, shorter than 5 characters after trim and lower-case, or
\* one of the fixed phrases
Generic(t) ==
    \/ Lower(Strip(t)) = <<>>
    \/ Len(Lower(Strip(t))) < 5
    \/ Lower(Strip(t)) \in GENERIC_TITLES

\* The alt candidates that may replace a non-generic feed title
Qualifying(e) ==
    {a \in {alt_candidates(e)[i] : i \in 1..Len(alt_candidates(e))} :
        ~Generic(a) /\ Len(a) >= Len(FeedTitle(e)) + 10}

\* C5: a non-generic feed title is replaced exactly when some alt candidate
\* is non-generic and at least 10 characters longer, and then by the
\* longest such candidate; otherwise the feed title is returned.
C5_LongestQualifyingAlt ==
    (prog = "resolve" /\ fpc.title /\ ~Generic(FeedTitle(entry))) =>
        IF Qualifying(entry) # {}
        THEN /\ titleResult \in Qualifying(entry)
             /\ \A a \in Qualifying(entry) : Len(a) <= Len(titleResult)
        ELSE titleResult = FeedTitle(entry)

C7_EmptyWellFormed ==
    /\ (prog = "daily" /\ pc = "done" /\ records = <<>>) =>
          /\ dailyFile.written
          /\ dailyFile.rows = <<>>
          /\ dailyFile.header = Columns
    /\ (prog = "weekly" /\ wpc = "done" /\ dfs = <<>>) =>
          /\ weeklyFile.written
          /\ weeklyFile.rows = <<>>
          /\ weeklyFile.header = Columns

\* The dates from a to b
DatesFromTo(a, b) == {Ord2Ymd(x) : x \in a..b}

\* The ISO year and week of the week whose Sunday has ordinal sunday: the
\* year of its Thursday, and the count of Thursdays of that year up to it
WeekOfThursday(sunday) ==
    LET thu == sunday - 3
        y == Ord2Ymd(thu)[1]
    IN <<y, ((thu - Ymd2Ord(y, 1, 1)) \div 7) + 1>>

\* C8: for every run date the aggregation takes the 7 dates from
\* last_monday to last_sunday, where last_monday is a Monday, last_sunday is
\* the Sunday 6 days later and the day before the Monday of the run date's
\* week; a run on 2025-10-13 takes 2025-10-06 to 2025-10-12; the output is
\* named by last_sunday's ISO year and week.
C8_LastWeek ==
    prog = "weekly" =>
        LET monday_now == CHOOSE m \in (today - 6)..today : IsoWeekday(m) = 1
        IN /\ IsoWeekday(week.monday) = 1
           /\ IsoWeekday(week.sunday) = 7
           /\ week.sunday = week.monday + 6
           /\ week.sunday = monday_now - 1
           /\ probed \subseteq DatesFromTo(week.monday, week.sunday)
           /\ wpc \in {"read", "done"} =>
                 /\ probed = DatesFromTo(week.monday, week.sunday)
                 /\ Cardinality(probed) = 7
                 /\ {files[i] : i \in 1..Len(files)} = probed \cap fsDays
                 /\ today = Ymd2Ord(2025, 10, 13) =>
                       probed = {<<2025, 10, dd>> : dd \in 6..12}
           /\ weeklyFile.written => weeklyFile.name = WeekOfThursday(week.sunday)

\* A run on Monday 2025-10-13, with a daily file on every date around it,
\* took the seven files of 2025-10-06 to 2025-10-12 and wrote week 2025-W41.
C8_Witness ==
    /\ prog = "weekly"
    /\ wpc = "done"
    /\ today = Ymd2Ord(2025, 10, 13)
    /\ fsDays = Around(today)
    /\ Len(files) = 7
    /\ files[1] = <<2025, 10, 6>>
    /\ files[7] = <<2025, 10, 12>>
    /\ weeklyFile.name = <<2025, 41>>

\* C9: the sort before deduplication is stable: among the rows of one
\* trimmed title and one pub_date the row kept is the one that came first in
\* the input.
C9_StableSort ==
    (prog \in {"daily", "weekly"} /\ OutputFile.written) =>
        \A k \in 1..Len(OutputFile.index) :
            \A j \in 1..(OutputFile.index[k] - 1) :
                ~ /\ Strip(InputRows[j].title) =
                        Strip(InputRows[OutputFile.index[k]].title)
                  /\ InputRows[j].pub_date = InputRows[OutputFile.index[k]].pub_date

\* The stored timestamps of the row pool that pandas reads
Readable == {"2025-10-10 08:00:00+00:00", "2025-10-10 09:00:00+00:00"}

\* C10: in the weekly aggregation a timestamp that cannot be read becomes
\* missing and never ends the run; rows without a timestamp are written
\* after every row with one, and one is dropped whenever the union holds a
\* row of the same trimmed title with a timestamp; a daily file that is
\* missing or does not load is skipped and the files that load are all
\* aggregated.
C10_UnparsableAndSkipped ==
    prog = "weekly" =>
        /\ \A k \in 1..Len(dfs) : \A i \in 1..Len(dfs[k].rows) :
              dfs[k].hasPub =>
                  LET stored == (CHOOSE r \in RowPool :
                                    r.link = dfs[k].rows[i].link).pub_date
                  IN IF stored \in Readable
                     THEN Len(dfs[k].rows[i].pub_date) = 6
                     ELSE dfs[k].rows[i].pub_date = <<>>
        /\ wpc = "done" =>
              LET out == weeklyFile.rows
                  inp == concat(dfs)
              IN /\ weeklyFile.written
                 /\ \A k, l \in 1..Len(out) :
                       (k < l /\ out[k].pub_date = <<>>) => out[l].pub_date = <<>>
                 /\ \A k \in 1..Len(out) :
                       out[k].pub_date = <<>> =>
                           \A j \in 1..Len(inp) :
                               Strip(inp[j].title) = Strip(out[k].title)
                                   => inp[j].pub_date = <<>>
                 /\ Len(dfs) + Cardinality(skipped) = Len(files)
                 /\ {files[i] : i \in 1..Len(files)} = probed \cap fsDays
                 /\ \A i \in 1..Len(inp) : \E k \in 1..Len(out) :
                       Strip(out[k].title) = Strip(inp[i].title)

\* Of two daily files the first did not load; the second held a row whose
\* timestamp could not be read before a row of the same title with one; the
\* row with the timestamp alone was written.
C10_Witness ==
    /\ prog = "weekly"
    /\ wpc = "done"
    /\ Len(files) = 2
    /\ skipped = {files[1]}
    /\ Len(dfs) = 1
    /\ Len(dfs[1].rows) = 2
    /\ dfs[1].rows[1].link = "5"
    /\ dfs[1].rows[1].pub_date = <<>>
    /\ dfs[1].rows[2].link = "3"
    /\ Len(weeklyFile.rows) = 1
    /\ weeklyFile.rows[1].link = "3"

====
